---- MODULE Spec2Model ----
(***************************************************************************)
(* The response-quality control loop of app.py: Me.chat generates a reply  *)
(* with the primary model (running tool rounds through                     *)
(* Me.handle_tool_call), has it judged by Me._evaluate_with_anthropic and  *)
(* regenerates it with the evaluator's feedback, at most twice.            *)
(*                                                                         *)
(* Strings are tokens; a string built by concatenation or by an f-string   *)
(* is the sequence of its pieces, so every "content" is a sequence of      *)
(* tokens.  A message is a record; "kind" tells a Python dict from the     *)
(* SDK's message object (response.choices[0].message), which has           *)
(* attributes but cannot be subscripted or serialized by json.dumps.       *)
(***************************************************************************)
EXTENDS Integers, Sequences, FiniteSets, TLC

\* ------------------------------------------------------------------ bounds
\* Tool calls the primary model may request inside one generation, over all
\* its tool rounds (the source's loop has no bound of its own).
MaxToolCalls == 2

\* ------------------------------------------------------- program constants
\* A retry loop that allows a third regeneration.
MaxRetries_three == 2 + 1

\* `attempts < 2` in the retry loop of chat.
MaxRetries == 2

\* Two turns side by side are explored up to this many tool calls and this
\* many regenerations each.
ConcToolCalls == 1
ConcRetries == 1

\* ------------------------------------------------------------------ inputs
Turns == {"t1", "t2"}
\* Turns that run under Spec (one call of chat).
SeqTurns == {"t1"}

Replies == {"r1", "r2"}
Feedbacks == {"too informal"}
UserMessages == {"hello"}
\* The names the primary model may put in a tool call: the two tools it was
\* given, a name that nothing in the module has, and the name of a module
\* function that is no tool.
ToolNames == {"record_user_details", "record_unknown_question", "delete_everything", "push"}
ArgEmail == "{\"email\": \"a@b.com\"}"
ArgQuestion == "{\"question\": \"q\"}"
ArgText == "{\"text\": \"x\"}"
ArgMalformed == "{"
ArgStrings == {ArgEmail, ArgQuestion, ArgText, ArgMalformed}

\* What the post to the notification endpoint comes to, when one is made.
DeliveryOutcomes == {"sent", "transport_error", "http_error"}

\* ---------------------------------------------------------------- messages
\* {"role": role, "content": content}
Dict(role, content) ==
  [kind |-> "dict", role |-> role, content |-> content,
   tool_call_id |-> "", tool_calls |-> <<>>]

\* {"role": "tool", "content": json.dumps(result), "tool_call_id": id}
ToolMessage(content, id) ==
  [kind |-> "dict", role |-> "tool", content |-> <<content>>,
   tool_call_id |-> id, tool_calls |-> <<>>]

\* response.choices[0].message of a tool-calls response: an SDK object.
ToolCallMessage(tool_calls) ==
  [kind |-> "object", role |-> "assistant", content |-> <<>>,
   tool_call_id |-> "", tool_calls |-> tool_calls]

ToolCall(id, name, arguments) == [id |-> id, name |-> name, arguments |-> arguments]

\* The id the primary model gives the n-th call of a generation: ids are
\* opaque and unique within a message sequence.
CallId(n) == "call_" \o ToString(n)

\* What the primary model chooses for a call, the name and the argument
\* string: each tool with the arguments it takes, a tool with arguments that
\* do not decode and with arguments of the other tool, a name the module does
\* not have with arguments that decode and with arguments that do not, and a
\* module function that is no tool with the argument it takes.
Requests ==
  { <<"record_user_details", ArgEmail>>, <<"record_unknown_question", ArgQuestion>>,
    <<"record_user_details", ArgMalformed>>, <<"record_user_details", ArgQuestion>>,
    <<"delete_everything", ArgEmail>>, <<"delete_everything", ArgMalformed>>,
    <<"push", ArgText>> }

\* The non-empty lists of at most room tool calls of one response, when the
\* generation has made `made` calls so far.
ToolCallLists(made, room) ==
  {[i \in 1..Len(f) |-> ToolCall(CallId(made + i), f[i][1], f[i][2])] :
     f \in UNION {[1..n -> Requests] : n \in 1..room}}

\* The histories a caller passes: user and assistant dicts.
Histories ==
  {<<>>, <<Dict("user", <<"h1">>), Dict("assistant", <<"h2">>)>>}

\* The persona documents read by __init__ (the PDFs are optional).
Personas ==
  {[name |-> "Joshua", summary |-> "summary", linkedin |-> l, resume |-> "resume"] :
     l \in {"", "linkedin"}}

\* ------------------------------------------------------------ notification
\* The environment of a push: the two credentials and what the endpoint does.
PushEnv(token, user, outcome) == [token |-> token, user |-> user, outcome |-> outcome]

\* A push that lets the exception of a failed post out.
push_unswallowed(env) ==
  IF ~env.token \/ ~env.user
  THEN [posts |-> 0, failed |-> 0, raised |-> "none"]
  ELSE IF env.outcome = "sent"
  THEN [posts |-> 1, failed |-> 0, raised |-> "none"]
  ELSE [posts |-> 1, failed |-> 1, raised |-> "RequestException"]

\* push(text): the posts it makes, the posts that failed and the exception it
\* lets out ("none": both except clauses swallow what the post raises).
push(env) ==
  IF ~env.token \/ ~env.user
  THEN [posts |-> 0, failed |-> 0, raised |-> "none"]
  ELSE IF env.outcome = "sent"
  THEN [posts |-> 1, failed |-> 0, raised |-> "none"]
  ELSE [posts |-> 1, failed |-> 1, raised |-> "none"]

\* ------------------------------------------------------------ tool registry
\* json.loads(tool_call.function.arguments): does the string decode?
json_loads_ok(arguments) == arguments # ArgMalformed

\* The keys of the decoded arguments.
json_loads(arguments) ==
  CASE arguments = ArgEmail -> {"email"}
    [] arguments = ArgQuestion -> {"question"}
    [] arguments = ArgText -> {"text"}
    [] OTHER -> {}

\* The tools declared to the primary model (the list `tools`).
ToolFunctions == {"record_user_details", "record_unknown_question"}

\* The callables among the module's globals that a tool name can resolve to.
ModuleFunctions == ToolFunctions \cup {"push"}

\* globals().get(tool_name)
globals_get(tool_name) == IF tool_name \in ModuleFunctions THEN tool_name ELSE "None"

\* The parameters without a default, and all parameters, of a module function.
RequiredParams(tool) ==
  CASE tool = "record_user_details" -> {"email"}
    [] tool = "record_unknown_question" -> {"question"}
    [] OTHER -> {"text"}
AllParams(tool) ==
  CASE tool = "record_user_details" -> {"email", "name", "notes"}
    [] tool = "record_unknown_question" -> {"question"}
    [] OTHER -> {"text"}

\* tool(**arguments) binds: every required parameter given, no unknown keyword.
CallBinds(tool, keys) == RequiredParams(tool) \subseteq keys /\ keys \subseteq AllParams(tool)

\* json.dumps of the payloads a dispatch can produce; push returns None.
PayloadOk == "{\"recorded\": \"ok\"}"
PayloadEmpty == "{}"
PayloadNull == "null"

\* json.dumps(tool(**arguments)) of a call that binds.
Payload(tool) == IF tool \in ToolFunctions THEN PayloadOk ELSE PayloadNull

\* tool(**arguments) for a call that binds: each of the three functions calls
\* push once (the two tools from their body, push being the call itself).
\* acc gains the result, or the exception push let out.
call_tool(tool, tool_call, acc, env) ==
  LET p == push(env) IN
  IF p.raised # "none"
  THEN [acc EXCEPT !.pushes = @ + 1, !.posts = @ + p.posts, !.failed = @ + p.failed,
                   !.records = @ + (IF tool \in ToolFunctions THEN 1 ELSE 0),
                   !.error = p.raised]
  ELSE [acc EXCEPT !.pushes = @ + 1, !.posts = @ + p.posts, !.failed = @ + p.failed,
                   !.records = @ + (IF tool \in ToolFunctions THEN 1 ELSE 0),
                   !.results = Append(@, ToolMessage(Payload(tool), tool_call.id))]

\* A dispatch that answers only the calls whose tool exists.
handle_one_skip_unknown(tool_call, acc, env) ==
  IF ~json_loads_ok(tool_call.arguments)
  THEN [acc EXCEPT !.error = "JSONDecodeError"]
  ELSE LET tool == globals_get(tool_call.name)
           seen == [acc EXCEPT !.dispatched = @ + 1] IN
       IF tool = "None"
       THEN seen
       ELSE IF ~CallBinds(tool, json_loads(tool_call.arguments))
       THEN [seen EXCEPT !.error = "TypeError: arguments"]
       ELSE call_tool(tool, tool_call, seen, env)

\* A dispatch that answers a call whose arguments do not decode with an empty
\* result instead of raising.
handle_one_default_arguments(tool_call, acc, env) ==
  IF ~json_loads_ok(tool_call.arguments)
  THEN [acc EXCEPT !.results = Append(@, ToolMessage(PayloadEmpty, tool_call.id))]
  ELSE LET tool == globals_get(tool_call.name)
           seen == [acc EXCEPT !.dispatched = @ + 1] IN
       IF tool = "None"
       THEN [seen EXCEPT !.results = Append(@, ToolMessage(PayloadEmpty, tool_call.id))]
       ELSE IF ~CallBinds(tool, json_loads(tool_call.arguments))
       THEN [seen EXCEPT !.error = "TypeError: arguments"]
       ELSE call_tool(tool, tool_call, seen, env)

\* One iteration of the loop of handle_tool_call on tool_calls[i]; acc holds the
\* results so far, the calls that got past json.loads (dispatched), the calls
\* of the two tools (records) and of push, the posts made and failed, and the
\* exception raised.
handle_one(tool_call, acc, env) ==
  IF ~json_loads_ok(tool_call.arguments)
  THEN [acc EXCEPT !.error = "JSONDecodeError"]
  ELSE LET tool == globals_get(tool_call.name)
           seen == [acc EXCEPT !.dispatched = @ + 1] IN
       IF tool = "None"
       THEN [seen EXCEPT !.results = Append(@, ToolMessage(PayloadEmpty, tool_call.id))]
       ELSE IF ~CallBinds(tool, json_loads(tool_call.arguments))
       THEN [seen EXCEPT !.error = "TypeError: arguments"]
       ELSE call_tool(tool, tool_call, seen, env)

\* A loop that dispatches the first call of a response and leaves the others.
handle_from_first_only(tool_calls, i, acc, env) ==
  IF i > Len(tool_calls) \/ acc.error # "none"
  THEN acc
  ELSE handle_one(tool_calls[i], acc, env)

\* The loop of handle_tool_call from call i on; it ends at the first exception.
RECURSIVE handle_from(_, _, _, _)
handle_from(tool_calls, i, acc, env) ==
  IF i > Len(tool_calls) \/ acc.error # "none"
  THEN acc
  ELSE handle_from(tool_calls, i + 1, handle_one(tool_calls[i], acc, env), env)

\* Me.handle_tool_call: the tool messages, in the order of the calls; an
\* exception of one call ends the loop and leaves the earlier pushes made.
handle_tool_call(tool_calls, env) ==
  handle_from(tool_calls, 1,
              [results |-> <<>>, dispatched |-> 0, records |-> 0, pushes |-> 0,
               posts |-> 0, failed |-> 0, error |-> "none"],
              env)

\* ------------------------------------------------------------ system prompt
\* Me.system_prompt: the instructions and the three documents.
system_prompt(me) ==
  <<"You are acting as", me.name, "## Summary:", me.summary,
    "## LinkedIn Profile:", me.linkedin, "## Resume:", me.resume,
    "With this context, please chat with the user">>

\* base_system + the rejection block of the retry loop.
improved_system(base_system, reply, evaluation) ==
  base_system \o <<"## Previous answer rejected", "Your previous answer was:", reply,
                   "Reason for rejection (from evaluator):", evaluation.feedback,
                   "Revise your answer">>

\* A message sequence that takes the history newest first.
RECURSIVE Reverse(_)
Reverse(seq) == IF seq = <<>> THEN <<>> ELSE Append(Reverse(Tail(seq)), Head(seq))
build_messages_reversed(system, history, message) ==
  <<Dict("system", system)>> \o Reverse(history) \o <<Dict("user", <<message>>)>>

\* [{"role": "system", "content": system}] + history + [{"role": "user", "content": message}]
build_messages(system, history, message) ==
  <<Dict("system", system)>> \o history \o <<Dict("user", <<message>>)>>

\* A tool round that puts the results before the tool-call message.
append_tool_round_results_first(messages, tool_msg, results) ==
  Append(messages \o results, tool_msg)

\* messages.append(tool_msg); messages.extend(results)
append_tool_round(messages, tool_msg, results) == Append(messages, tool_msg) \o results

\* ---------------------------------------------------------------- evaluator
\* An evaluation as chat holds it: a dict, or (kind "list") a parsed value
\* that is no dict.
Evaluation(kind, is_acceptable, feedback) ==
  [kind |-> kind, is_acceptable |-> is_acceptable, feedback |-> feedback]

\* No evaluation yet.
NoEvaluation == Evaluation("none", TRUE, "")

\* What the HTTP call to the secondary model can come to.  "text" is the
\* joined text of the content parts of a 2xx answer:
\*   not_json    text that json.loads rejects;
\*   object      a JSON object, with or without each of the two fields;
\*   scalar      JSON that is no object and holds neither key (null, 5, []):
\*               the membership test or the item assignment raises;
\*   key_list    a JSON array holding both key strings: both membership
\*               tests pass and the list itself is returned.
RawTexts == {" Looks good ", "401 chars"}
Objects ==
  {[has_acc |-> ha, acc |-> a, has_fb |-> hf, fb |-> f] :
     ha \in BOOLEAN, a \in BOOLEAN, hf \in BOOLEAN, f \in Feedbacks}
EvalResponse(http, form, raw, obj) == [http |-> http, form |-> form, raw |-> raw, obj |-> obj]
NoObject == [has_acc |-> FALSE, acc |-> TRUE, has_fb |-> FALSE, fb |-> "too informal"]
\* No call to the secondary model yet.
NoResponse == EvalResponse("none", "none", "", NoObject)
EvaluatorResponses ==
  {EvalResponse(h, "none", "", NoObject) : h \in {"transport_error", "http_error", "bad_body"}}
  \cup {EvalResponse("ok", "not_json", r, NoObject) : r \in RawTexts}
  \cup {EvalResponse("ok", f, "", NoObject) : f \in {"scalar", "key_list"}}
  \cup {EvalResponse("ok", "object", "", o) :
          o \in {x \in Objects : ~x.has_acc => x.acc}}

\* text.strip()[:400]
strip_truncate(text) ==
  CASE text = " Looks good " -> "Looks good"
    [] text = "401 chars" -> "400 chars"
    [] OTHER -> text

\* str(e) of the exception the try block caught.
ErrorString(resp) ==
  CASE resp.http = "transport_error" -> "ConnectTimeout"
    [] resp.http = "http_error" -> "500 Server Error"
    [] resp.http = "bad_body" -> "Expecting value"
    [] OTHER -> "TypeError"

\* json.dumps(history_messages): an SDK object is not JSON serializable.
json_dumps_ok(history_messages) ==
  \A i \in 1..Len(history_messages) : history_messages[i].kind = "dict"

\* Me._evaluate_with_anthropic: the exception it raises ("none" when it
\* returns), the value it returns and the number of HTTP calls it made.
evaluate_with_anthropic(api_key, history_messages, resp) ==
  IF ~api_key
  THEN [raised |-> "none", calls |-> 0,
        value |-> Evaluation("dict", TRUE, "Evaluator unavailable")]
  ELSE IF ~json_dumps_ok(history_messages)
  THEN [raised |-> "TypeError: not JSON serializable", calls |-> 0, value |-> NoEvaluation]
  ELSE [raised |-> "none", calls |-> 1,
        value |->
          CASE resp.http # "ok" -> Evaluation("dict", TRUE, ErrorString(resp))
            [] resp.form = "not_json" -> Evaluation("dict", TRUE, strip_truncate(resp.raw))
            [] resp.form = "scalar" -> Evaluation("dict", TRUE, ErrorString(resp))
            [] resp.form = "key_list" -> Evaluation("list", TRUE, "")
            [] OTHER ->
                 Evaluation("dict",
                            IF resp.obj.has_acc THEN resp.obj.acc ELSE TRUE,
                            IF resp.obj.has_fb THEN resp.obj.fb ELSE "")]

\* A tool round on a message list that is the caller's list itself.
history_after_round_shared(history, tool_msg, results) == Append(history, tool_msg) \o results

\* messages.append(tool_msg) and messages.extend(results) as the caller's list
\* sees them: messages is the list that + built, another object than history,
\* so the caller's list keeps its elements.
history_after_round(history, tool_msg, results) == history

\* m["role"] for every m of messages: an SDK object is not subscriptable.
subscript_ok(messages) == \A i \in 1..Len(messages) : messages[i].kind = "dict"

\* [m for m in messages if m["role"] in ("system", "user", "assistant", "tool")]
filter_roles(messages) ==
  SelectSeq(messages, LAMBDA m : m.role \in {"system", "user", "assistant", "tool"})

\* A retry loop that looks at the budget alone, not at the verdict.
retry_condition_budget_only(evaluation, attempts) == attempts < MaxRetries

\* not evaluation.get("is_acceptable", True) and attempts < 2
retry_condition(evaluation, attempts) ==
  ~evaluation.is_acceptable /\ attempts < MaxRetries

\* -------------------------------------------------------------------- state
VARIABLES
  me,            \* the Me instance: name, summary, linkedin, resume
  api_key,       \* ANTHROPIC_API_KEY is set
  pushover_token,\* PUSHOVER_TOKEN is set
  pushover_user, \* PUSHOVER_USER is set
  notifyCalls,   \* calls of push so far
  recordCalls,   \* calls of record_user_details and record_unknown_question so far
  deliveries,    \* HTTP posts to the notification endpoint so far
  deliveryErrors,\* posts to the notification endpoint that failed so far
  pc,            \* per turn: where chat is
  message,       \* per turn: the user's message
  history,       \* per turn: the caller's history
  history_before,\* per turn: the caller's history as it was when chat was called
  base_system,   \* per turn: base_system of chat
  messages,      \* per turn: messages of chat
  reply,         \* per turn: reply of chat
  evaluation,    \* per turn: evaluation of chat
  eval_history,  \* per turn: eval_history of chat, as last passed on
  attempts,      \* per turn: attempts of chat
  error,         \* per turn: the exception that left chat ("none")
  returned,      \* per turn: the value chat returned
  toolCalls,     \* per turn: tool calls of the generation under way
  genLog,        \* per turn: the reply of every generation finished
  evalLog,       \* per turn: the value of every evaluation returned
  evalCalls,     \* per turn: HTTP calls made to the secondary model
  evalResponse,  \* per turn: what the last call to the secondary model came to
  dispatched,    \* per turn: tool calls of the generation under way that got
                 \* past json.loads in handle_tool_call
  malformedAt,   \* per turn: the number, among the tool calls of the generation,
                 \* of the first one whose arguments do not decode (0: none)
  modelFailed    \* per turn: a call of the primary model has failed

shared == <<me, api_key, pushover_token, pushover_user>>
sink == <<notifyCalls, recordCalls, deliveries, deliveryErrors>>
locals == <<message, history, base_system, messages, reply, evaluation, eval_history,
            attempts, error, returned>>
ghosts == <<toolCalls, genLog, evalLog, evalCalls>>
audit == <<evalResponse, dispatched, malformedAt, modelFailed>>
vars == <<shared, sink, pc, locals, ghosts, audit, history_before>>

NoReply == "None"

Init ==
  /\ me \in Personas
  /\ api_key \in BOOLEAN
  /\ pushover_token \in BOOLEAN
  /\ pushover_user \in BOOLEAN
  /\ notifyCalls = 0
  /\ recordCalls = 0
  /\ deliveries = 0
  /\ deliveryErrors = 0
  /\ pc = [t \in Turns |-> "idle"]
  /\ message = [t \in Turns |-> ""]
  /\ history = [t \in Turns |-> <<>>]
  /\ history_before = [t \in Turns |-> <<>>]
  /\ base_system = [t \in Turns |-> <<>>]
  /\ messages = [t \in Turns |-> <<>>]
  /\ reply = [t \in Turns |-> NoReply]
  /\ evaluation = [t \in Turns |-> NoEvaluation]
  /\ eval_history = [t \in Turns |-> <<>>]
  /\ attempts = [t \in Turns |-> 0]
  /\ error = [t \in Turns |-> "none"]
  /\ returned = [t \in Turns |-> NoReply]
  /\ toolCalls = [t \in Turns |-> 0]
  /\ genLog = [t \in Turns |-> <<>>]
  /\ evalLog = [t \in Turns |-> <<>>]
  /\ evalCalls = [t \in Turns |-> 0]
  /\ evalResponse = [t \in Turns |-> NoResponse]
  /\ dispatched = [t \in Turns |-> 0]
  /\ malformedAt = [t \in Turns |-> 0]
  /\ modelFailed = [t \in Turns |-> FALSE]

\* chat raises exception e.
Raise(t, e) ==
  /\ pc' = [pc EXCEPT ![t] = "raised"]
  /\ error' = [error EXCEPT ![t] = e]

\* A chat that keeps its message list on the instance, so that a call
\* replaces the list every running turn works on.
Call_messages_on_self(t, histories) ==
  /\ pc[t] = "idle"
  /\ \E m \in UserMessages, h \in histories :
       /\ message' = [message EXCEPT ![t] = m]
       /\ history' = [history EXCEPT ![t] = h]
       /\ history_before' = [history_before EXCEPT ![t] = h]
       /\ base_system' = [base_system EXCEPT ![t] = system_prompt(me)]
       /\ messages' = [u \in Turns |-> build_messages(system_prompt(me), h, m)]
  /\ pc' = [pc EXCEPT ![t] = "generate"]
  /\ UNCHANGED <<shared, sink, reply, evaluation, eval_history, attempts, error,
                 returned, ghosts, audit>>

\* chat(message, history) is called with a history of histories: base_system
\* and the round-0 messages.
Call(t, histories) ==
  /\ pc[t] = "idle"
  /\ \E m \in UserMessages, h \in histories :
       /\ message' = [message EXCEPT ![t] = m]
       /\ history' = [history EXCEPT ![t] = h]
       /\ history_before' = [history_before EXCEPT ![t] = h]
       /\ base_system' = [base_system EXCEPT ![t] = system_prompt(me)]
       /\ messages' = [messages EXCEPT ![t] = build_messages(system_prompt(me), h, m)]
  /\ pc' = [pc EXCEPT ![t] = "generate"]
  /\ UNCHANGED <<shared, sink, reply, evaluation, eval_history, attempts, error,
                 returned, ghosts, audit>>

\* chat is called with any history.
ChatCall(t) == Call(t, Histories)

\* A turn that returns the reply of the last allowed regeneration without
\* evaluating it.
ModelReturnsText_skip_last(t) ==
  /\ pc[t] = "generate"
  /\ \E r \in Replies :
       /\ reply' = [reply EXCEPT ![t] = r]
       /\ genLog' = [genLog EXCEPT ![t] = Append(@, r)]
       /\ returned' = [returned EXCEPT ![t] = IF attempts[t] = MaxRetries THEN r ELSE @]
  /\ pc' = [pc EXCEPT ![t] = IF attempts[t] = MaxRetries THEN "returned" ELSE "evaluate"]
  /\ UNCHANGED <<shared, history_before, sink, message, history, base_system, messages, evaluation,
                 eval_history, attempts, error, toolCalls, evalLog, evalCalls, audit>>

\* The primary model answers with final text: the generation loop ends.
ModelReturnsText(t) ==
  /\ pc[t] = "generate"
  /\ \E r \in Replies :
       /\ reply' = [reply EXCEPT ![t] = r]
       /\ genLog' = [genLog EXCEPT ![t] = Append(@, r)]
  /\ pc' = [pc EXCEPT ![t] = "evaluate"]
  /\ UNCHANGED <<shared, history_before, sink, message, history, base_system, messages, evaluation,
                 eval_history, attempts, error, returned, toolCalls, evalLog, evalCalls,
                 audit>>

\* The number of the first call of tool_calls whose arguments do not decode,
\* counted from the calls the generation made before (0: there is none).
FirstMalformed(tool_calls, made) ==
  LET bad == {i \in 1..Len(tool_calls) : tool_calls[i].arguments = ArgMalformed} IN
  IF bad = {} THEN 0 ELSE made + (CHOOSE i \in bad : \A j \in bad : i <= j)

\* The primary model answers with one of tool_call_lists and the endpoint
\* of the notifications behaves as one of outcomes: handle_tool_call runs the
\* calls, and the tool-call message and the results join messages, unless a
\* call raised.
ToolRound(t, tool_call_lists, outcomes) ==
  /\ pc[t] = "generate"
  /\ \E tool_calls \in tool_call_lists, outcome \in outcomes :
       LET out == handle_tool_call(tool_calls,
                                   PushEnv(pushover_token, pushover_user, outcome)) IN
       /\ notifyCalls' = notifyCalls + out.pushes
       /\ recordCalls' = recordCalls + out.records
       /\ deliveries' = deliveries + out.posts
       /\ deliveryErrors' = deliveryErrors + out.failed
       /\ dispatched' = [dispatched EXCEPT ![t] = @ + out.dispatched]
       /\ malformedAt' = [malformedAt EXCEPT ![t] =
            IF @ # 0 THEN @ ELSE FirstMalformed(tool_calls, toolCalls[t])]
       /\ IF out.error # "none"
          THEN /\ Raise(t, out.error)
               /\ UNCHANGED <<messages, history, toolCalls>>
          ELSE /\ messages' = [messages EXCEPT ![t] =
                    append_tool_round(@, ToolCallMessage(tool_calls), out.results)]
               /\ history' = [history EXCEPT ![t] =
                    history_after_round(@, ToolCallMessage(tool_calls), out.results)]
               /\ toolCalls' = [toolCalls EXCEPT ![t] = @ + Len(tool_calls)]
               /\ UNCHANGED <<pc, error>>
  /\ UNCHANGED <<shared, history_before, message, base_system, reply, evaluation, eval_history,
                 attempts, returned, genLog, evalLog, evalCalls, evalResponse, modelFailed>>

\* A generation loop that allows one tool round and then expects final text.
ModelRequestsTools_one_round(t) ==
  /\ toolCalls[t] = 0
  /\ ToolRound(t, ToolCallLists(toolCalls[t], MaxToolCalls - toolCalls[t]), DeliveryOutcomes)

\* The primary model answers with tool calls, as long as the generation has
\* room for them.
ModelRequestsTools(t) ==
  /\ toolCalls[t] < MaxToolCalls
  /\ ToolRound(t, ToolCallLists(toolCalls[t], MaxToolCalls - toolCalls[t]), DeliveryOutcomes)

\* A generation loop that calls the primary model again when a call failed.
ModelCallFails_retry(t) ==
  /\ pc[t] = "generate"
  /\ ~modelFailed[t]
  /\ modelFailed' = [modelFailed EXCEPT ![t] = TRUE]
  /\ UNCHANGED <<shared, history_before, sink, pc, locals, ghosts, evalResponse, dispatched, malformedAt>>

\* The call of the primary model fails: the exception leaves chat.
ModelCallFails(t) ==
  /\ pc[t] = "generate"
  /\ Raise(t, "APIError")
  /\ modelFailed' = [modelFailed EXCEPT ![t] = TRUE]
  /\ UNCHANGED <<shared, history_before, sink, message, history, base_system, messages, reply, evaluation,
                 eval_history, attempts, returned, ghosts, evalResponse, dispatched,
                 malformedAt>>

\* eval_history is built from messages and the reply is evaluated.  Building
\* it subscripts every message, so a tool-call message left in messages by a
\* tool round raises before the evaluator is reached.
Evaluate(t, responses) ==
  /\ pc[t] = "evaluate"
  /\ IF ~subscript_ok(messages[t])
     THEN /\ Raise(t, "TypeError: not subscriptable")
          /\ UNCHANGED <<eval_history, evaluation, evalLog, evalCalls, evalResponse>>
     ELSE \E resp \in responses :
            LET out == evaluate_with_anthropic(api_key, filter_roles(messages[t]), resp) IN
            /\ eval_history' = [eval_history EXCEPT ![t] = filter_roles(messages[t])]
            /\ evalCalls' = [evalCalls EXCEPT ![t] = @ + out.calls]
            /\ evalResponse' = [evalResponse EXCEPT ![t] =
                                  IF out.calls = 0 THEN NoResponse ELSE resp]
            /\ IF out.raised # "none"
               THEN /\ Raise(t, out.raised)
                    /\ UNCHANGED <<evaluation, evalLog>>
               ELSE /\ evaluation' = [evaluation EXCEPT ![t] = out.value]
                    /\ evalLog' = [evalLog EXCEPT ![t] = Append(@, out.value)]
                    /\ pc' = [pc EXCEPT ![t] = "decide"]
                    /\ UNCHANGED error
  /\ UNCHANGED <<shared, history_before, sink, message, history, base_system, messages, reply, attempts,
                 returned, toolCalls, genLog, dispatched, malformedAt, modelFailed>>

\* The reply is evaluated, whatever the call of the secondary model comes to.
EvaluateReply(t) == Evaluate(t, EvaluatorResponses)

\* The loop condition calls evaluation.get: a value that is no dict raises.
EvaluationNotDict(t) ==
  /\ pc[t] = "decide"
  /\ evaluation[t].kind # "dict"
  /\ Raise(t, "AttributeError: get")
  /\ UNCHANGED <<shared, history_before, sink, message, history, base_system, messages, reply, evaluation,
                 eval_history, attempts, returned, ghosts, audit>>

\* A retry that appends the rejection block to the system message in use, so
\* that the blocks of earlier rejections pile up.
Regenerate_accumulating(t) ==
  /\ pc[t] = "decide"
  /\ evaluation[t].kind = "dict"
  /\ retry_condition(evaluation[t], attempts[t])
  /\ attempts' = [attempts EXCEPT ![t] = @ + 1]
  /\ messages' = [messages EXCEPT ![t] =
       build_messages(improved_system(messages[t][1].content, reply[t], evaluation[t]),
                      history[t], message[t])]
  /\ toolCalls' = [toolCalls EXCEPT ![t] = 0]
  /\ dispatched' = [dispatched EXCEPT ![t] = 0]
  /\ pc' = [pc EXCEPT ![t] = "generate"]
  /\ UNCHANGED <<shared, history_before, sink, message, history, base_system, reply, evaluation,
                 eval_history, error, returned, genLog, evalLog, evalCalls, evalResponse,
                 malformedAt, modelFailed>>

\* One pass of the retry loop up to its generation: attempts += 1 and the
\* messages are rebuilt around the improved system prompt.
Regenerate(t) ==
  /\ pc[t] = "decide"
  /\ evaluation[t].kind = "dict"
  /\ retry_condition(evaluation[t], attempts[t])
  /\ attempts' = [attempts EXCEPT ![t] = @ + 1]
  /\ messages' = [messages EXCEPT ![t] =
       build_messages(improved_system(base_system[t], reply[t], evaluation[t]),
                      history[t], message[t])]
  /\ toolCalls' = [toolCalls EXCEPT ![t] = 0]
  /\ dispatched' = [dispatched EXCEPT ![t] = 0]
  /\ pc' = [pc EXCEPT ![t] = "generate"]
  /\ UNCHANGED <<shared, history_before, sink, message, history, base_system, reply, evaluation,
                 eval_history, error, returned, genLog, evalLog, evalCalls, evalResponse,
                 malformedAt, modelFailed>>

\* The retry loop is over: return reply.
ReturnReply(t) ==
  /\ pc[t] = "decide"
  /\ evaluation[t].kind = "dict"
  /\ ~retry_condition(evaluation[t], attempts[t])
  /\ returned' = [returned EXCEPT ![t] = reply[t]]
  /\ pc' = [pc EXCEPT ![t] = "returned"]
  /\ UNCHANGED <<shared, history_before, sink, message, history, base_system, messages, reply, evaluation,
                 eval_history, attempts, error, toolCalls, genLog, evalLog, evalCalls,
                 audit>>

Step(t) ==
  \/ ChatCall(t)
  \/ ModelReturnsText(t)
  \/ ModelRequestsTools(t)
  \/ ModelCallFails(t)
  \/ EvaluateReply(t)
  \/ EvaluationNotDict(t)
  \/ Regenerate(t)
  \/ ReturnReply(t)

\* One call of chat.
Next == \E t \in SeqTurns : Step(t)

Spec == Init /\ [][Next]_vars

\* ------------------------------------------------------ concurrent turns
\* Two callers: the first opens a conversation, the second continues one.
ConcHistory(t) ==
  IF t = "t1" THEN <<>> ELSE <<Dict("user", <<"h1">>), Dict("assistant", <<"h2">>)>>

\* The evaluator answers explored with two turns: a complete verdict either
\* way, and the array that is returned as it is.
ConcResponses ==
  {EvalResponse("ok", "object", "", [has_acc |-> TRUE, acc |-> a, has_fb |-> TRUE,
                                     fb |-> "too informal"]) : a \in BOOLEAN}
  \cup {EvalResponse("ok", "key_list", "", NoObject)}

\* The tool round explored with two turns: one call of a tool.
ConcToolCallLists(made) ==
  {<<ToolCall(CallId(made + 1), "record_user_details", ArgEmail)>>}

\* The instance the two callers share: the evaluator and the notification
\* service are configured.
InitConc == Init /\ api_key /\ pushover_token /\ pushover_user

\* One step of the thread of turn t.
StepConc(t) ==
  \/ Call(t, {ConcHistory(t)})
  \/ ModelReturnsText(t)
  \/ toolCalls[t] < ConcToolCalls /\ ToolRound(t, ConcToolCallLists(toolCalls[t]), {"sent"})
  \/ ModelCallFails(t)
  \/ Evaluate(t, ConcResponses)
  \/ EvaluationNotDict(t)
  \/ attempts[t] < ConcRetries /\ Regenerate(t)
  \/ ReturnReply(t)

\* The threads of the two callers interleave at every step of chat.
NextConc == \E t \in Turns : StepConc(t)

SpecConc == InitConc /\ [][NextConc]_vars

\* ------------------------------------------------------------------ claims
\* The exceptions that leave chat from inside a generation: the call of the
\* primary model failed, or a tool call could not be decoded or bound.
GenerationErrors == {"APIError", "JSONDecodeError", "TypeError: arguments"}

Last(s) == s[Len(s)]

Rejects(e) == e.kind = "dict" /\ ~e.is_acceptable
Accepts(e) == e.kind = "dict" /\ e.is_acceptable

\* C1: in every call of chat the attempts counter starts at 0, is the number
\* of regenerations begun (one more generation than that has been started),
\* and never exceeds 2: at most 2 regenerations, at most 3 generations.
C1_RetryBound ==
  \A t \in Turns :
    /\ attempts[t] \in 0..2
    /\ Len(genLog[t]) <= 3
    /\ pc[t] = "idle" => attempts[t] = 0 /\ genLog[t] = <<>>
    /\ pc[t] = "generate" => Len(genLog[t]) = attempts[t]
    /\ pc[t] \in {"evaluate", "decide", "returned"} => Len(genLog[t]) = attempts[t] + 1
    /\ pc[t] = "raised" => Len(genLog[t]) \in {attempts[t], attempts[t] + 1}

\* C1: chat returned after two regenerations, three generations in all.
C1_Witness ==
  \E t \in Turns : pc[t] = "returned" /\ attempts[t] = 2 /\ Len(genLog[t]) = 3

\* The turn is over: chat returned or raised.
Over(t) == pc[t] \in {"returned", "raised"}

\* messages holds the tool-call message of a tool round.
HasToolRound(msgs) == \E i \in 1..Len(msgs) : msgs[i].kind = "object"

\* C2: when every evaluation rejects and every generation produced final
\* text, chat returns, after exactly 2 retries and 3 generations, the reply of
\* the third generation.
C2_RejectAlwaysReturnsThird ==
  \A t \in Turns :
    ( /\ Over(t)
      /\ error[t] \notin GenerationErrors
      /\ evalLog[t] # <<>>
      /\ \A i \in 1..Len(evalLog[t]) : Rejects(evalLog[t][i]) )
    => /\ pc[t] = "returned"
       /\ attempts[t] = 2
       /\ Len(genLog[t]) = 3
       /\ returned[t] = genLog[t][3]

\* C3: with no evaluator credential, once the first generation has produced
\* its reply chat returns that reply with zero regenerations, the evaluation
\* is {is_acceptable: true, feedback: "Evaluator unavailable"} and no call
\* goes to the secondary model.
C3_UnconfiguredReturnsFirst ==
  \A t \in Turns :
    (~api_key /\ genLog[t] # <<>>)
    => /\ pc[t] # "raised"
       /\ attempts[t] = 0
       /\ evalCalls[t] = 0
       /\ Len(genLog[t]) = 1
       /\ \A i \in 1..Len(evalLog[t]) :
            evalLog[t][i] = Evaluation("dict", TRUE, "Evaluator unavailable")
       /\ pc[t] = "returned" => returned[t] = genLog[t][1]

\* C4: once a generation has produced a reply, nothing in the evaluation step
\* makes chat raise: chat raises only from inside a generation.
C4_EvaluationNeverRaises ==
  \A t \in Turns : pc[t] = "raised" => error[t] \in GenerationErrors

\* C5: when the first generation ran a tool round and then produced final
\* text, the evaluation step gets the whole message sequence of that attempt
\* and chat does not raise; if the evaluator accepts, chat returns that text
\* with zero retries.
C5_ToolRoundTurnCompletes ==
  \A t \in Turns :
    ( /\ attempts[t] = 0
      /\ HasToolRound(messages[t])
      /\ pc[t] \in {"decide", "returned", "raised"}
      /\ error[t] \notin GenerationErrors )
    => /\ pc[t] # "raised"
       /\ eval_history[t] = messages[t]
       /\ (pc[t] = "returned" /\ Accepts(evaluation[t])) => returned[t] = genLog[t][1]

\* C6: the controller stops at the first accepting evaluation: an accepting
\* evaluation is the last one, no generation follows it, and what chat returns
\* is the reply of the last generation it ran; reject-then-accept gives
\* exactly 2 generations and returns the second one's reply.
C6_StopAtFirstAccept ==
  \A t \in Turns :
    /\ \A i \in 1..Len(evalLog[t]) :
         Accepts(evalLog[t][i])
         => /\ i = Len(evalLog[t])
            /\ Len(genLog[t]) = i
            /\ pc[t] \in {"decide", "returned"}
    /\ pc[t] = "returned" => returned[t] = Last(genLog[t])
    /\ ( /\ pc[t] = "returned"
         /\ Len(evalLog[t]) = 2
         /\ Rejects(evalLog[t][1])
         /\ Accepts(evalLog[t][2]) )
       => Len(genLog[t]) = 2 /\ returned[t] = genLog[t][2]

\* C6: the evaluator rejected once and then accepted, and chat returned the
\* second generation's reply, which differs from the first.
C6_Witness ==
  \E t \in Turns :
    /\ pc[t] = "returned"
    /\ Len(evalLog[t]) = 2
    /\ Rejects(evalLog[t][1])
    /\ Accepts(evalLog[t][2])
    /\ genLog[t][1] # genLog[t][2]
    /\ returned[t] = genLog[t][2]

\* C7: in every regeneration round the system message is the round-0 system
\* prompt followed by exactly one rejection block, which holds the reply of
\* the generation just before and the feedback of the evaluation just before;
\* nothing of earlier rejections is kept.
C7_RejectionBlock ==
  \A t \in Turns :
    attempts[t] > 0
    => /\ base_system[t] = system_prompt(me)
       /\ messages[t][1] =
            Dict("system",
                 base_system[t] \o
                 <<"## Previous answer rejected", "Your previous answer was:",
                   genLog[t][attempts[t]],
                   "Reason for rejection (from evaluator):",
                   evalLog[t][attempts[t]].feedback,
                   "Revise your answer">>)
       /\ \A i \in 2..Len(messages[t]) : messages[t][i].role # "system"

\* C7: the second regeneration round is under way and the two rejected
\* replies and the two feedbacks differ.
C7_Witness ==
  \E t \in Turns :
    /\ pc[t] = "generate"
    /\ attempts[t] = 2
    /\ genLog[t][1] # genLog[t][2]
    /\ evalLog[t][1].feedback # evalLog[t][2].feedback

\* C8: at the start of every regeneration round messages is the new system
\* message, the caller's history in its order, and the user message, with no
\* tool-call message and no tool message in it.
C8_RetryStartsClean ==
  \A t \in Turns :
    (pc[t] = "generate" /\ attempts[t] > 0 /\ toolCalls[t] = 0)
    => /\ Len(messages[t]) = Len(history[t]) + 2
       /\ messages[t][1].role = "system"
       /\ SubSeq(messages[t], 2, Len(messages[t]) - 1) = history[t]
       /\ Last(messages[t]) = Dict("user", <<message[t]>>)
       /\ \A i \in 1..Len(messages[t]) :
            messages[t][i].kind = "dict" /\ messages[t][i].role # "tool"

\* C8: a regeneration round starts on a turn whose history is not empty.
C8_Witness ==
  \E t \in Turns :
    pc[t] = "generate" /\ attempts[t] > 0 /\ toolCalls[t] = 0 /\ Len(history[t]) = 2

\* The positions of the tool messages of msgs that carry tool_call_id id.
Answers(msgs, id) ==
  {q \in 1..Len(msgs) : msgs[q].role = "tool" /\ msgs[q].tool_call_id = id}

\* C9: whenever the primary model can be called, every tool call of every
\* tool round so far is answered by exactly one tool message with its id, and
\* the tool messages of a round follow the tool-call message in the order of
\* the calls.
C9_ToolRoundTrip ==
  \A t \in Turns :
    \A p \in 1..Len(messages[t]) :
      messages[t][p].kind = "object"
      => LET calls == messages[t][p].tool_calls IN
         /\ p + Len(calls) <= Len(messages[t])
         /\ \A i \in 1..Len(calls) :
              /\ messages[t][p + i].role = "tool"
              /\ messages[t][p + i].tool_call_id = calls[i].id
              /\ Answers(messages[t], calls[i].id) = {p + i}

\* C9: the next call of the primary model follows a tool round of two calls,
\* one of them to a tool that does not exist.
C9_Witness ==
  \E t \in Turns :
    /\ pc[t] = "generate"
    /\ \E p \in 1..Len(messages[t]) :
         /\ messages[t][p].kind = "object"
         /\ Len(messages[t][p].tool_calls) = 2
         /\ \E i \in 1..2 : messages[t][p].tool_calls[i].name = "delete_everything"

\* C10: in round 0 and in every regeneration round, every tool message of the
\* sequence comes after an assistant message that holds the tool call with
\* the same id.
C10_ToolMessageHasCall ==
  \A t \in Turns :
    \A q \in 1..Len(messages[t]) :
      messages[t][q].role = "tool"
      => \E p \in 1..(q - 1) :
           /\ messages[t][p].role = "assistant"
           /\ \E i \in 1..Len(messages[t][p].tool_calls) :
                messages[t][p].tool_calls[i].id = messages[t][q].tool_call_id

\* C10: a regeneration round has run a tool round and the primary model is
\* about to be called again.
C10_Witness ==
  \E t \in Turns :
    /\ pc[t] = "generate"
    /\ attempts[t] > 0
    /\ \E q \in 1..Len(messages[t]) : messages[t][q].role = "tool"

\* A turn that has left chat does nothing more: no call of either model, no
\* dispatch, no notification, no return.
Frozen(t) ==
  /\ pc'[t] = pc[t]
  /\ messages'[t] = messages[t]
  /\ genLog'[t] = genLog[t]
  /\ evalLog'[t] = evalLog[t]
  /\ evalCalls'[t] = evalCalls[t]
  /\ dispatched'[t] = dispatched[t]
  /\ attempts'[t] = attempts[t]
  /\ returned'[t] = returned[t]
  /\ error'[t] = error[t]

\* The tool message that answers call i of the tool-call message at p.
Answer(msgs, p, i) == msgs[p + i]

\* C11: a tool call whose name is not record_user_details or
\* record_unknown_question is answered with the payload {} and sends no
\* notification: every tool message for such a call holds {}, and push is
\* called only by the two tools.
C11_UnknownToolEmptyPayload ==
  /\ notifyCalls <= recordCalls
  /\ \A t \in Turns :
       \A p \in 1..Len(messages[t]) :
         messages[t][p].kind = "object"
         => \A i \in 1..Len(messages[t][p].tool_calls) :
              messages[t][p].tool_calls[i].name \notin ToolFunctions
              => Answer(messages[t], p, i).content = <<PayloadEmpty>>

\* C12: a tool call whose arguments do not decode ends the turn with the
\* exception: chat has raised and returned nothing, the call and the calls
\* after it were not dispatched and got no tool message, and from then on the
\* turn calls no model, dispatches no tool and evaluates nothing.
C12_MalformedArgumentsFatal ==
  /\ [](\A t \in Turns :
          malformedAt[t] > 0
          => /\ pc[t] = "raised"
             /\ error[t] \in {"JSONDecodeError", "TypeError: arguments"}
             /\ returned[t] = NoReply
             /\ dispatched[t] < malformedAt[t]
             /\ toolCalls[t] < malformedAt[t]
             /\ error[t] = "JSONDecodeError" => dispatched[t] = malformedAt[t] - 1)
  /\ [][\A t \in Turns : malformedAt[t] > 0 => Frozen(t)]_vars

\* C12: the second call of a response had arguments that do not decode, after
\* a first call that was dispatched and made its notification.
C12_Witness ==
  \E t \in Turns :
    /\ error[t] = "JSONDecodeError"
    /\ malformedAt[t] = 2
    /\ dispatched[t] = 1
    /\ notifyCalls = 1

\* C13: a failed call of the primary model ends the turn with the exception,
\* in round 0 and in a regeneration round: chat has raised and returned
\* nothing, and from then on the turn calls no model and evaluates nothing;
\* a regeneration round is entered only on a rejecting evaluation.
C13_ModelFailureFatal ==
  /\ [](\A t \in Turns :
          /\ modelFailed[t]
             => pc[t] = "raised" /\ error[t] = "APIError" /\ returned[t] = NoReply
          /\ attempts[t] > 0
             => Len(evalLog[t]) >= attempts[t] /\ Rejects(evalLog[t][attempts[t]]))
  /\ [][\A t \in Turns : modelFailed[t] => Frozen(t)]_vars

\* C13: the call of the primary model failed in a regeneration round, after a
\* tool round of that generation.
C13_Witness ==
  \E t \in Turns :
    modelFailed[t] /\ pc[t] = "raised" /\ attempts[t] = 1 /\ toolCalls[t] = 1

\* C14: every dispatch of one of the two tools is answered with
\* {recorded: "ok"} and makes one call of push, nothing being deduplicated, so
\* the calls of push are as many as the calls of the two tools.
C14_OneNotifyPerToolCall ==
  /\ notifyCalls = recordCalls
  /\ \A t \in Turns :
       \A p \in 1..Len(messages[t]) :
         messages[t][p].kind = "object"
         => \A i \in 1..Len(messages[t][p].tool_calls) :
              messages[t][p].tool_calls[i].name \in ToolFunctions
              => Answer(messages[t], p, i).content = <<PayloadOk>>

\* C15: push never fails the conversation: no exception of a delivery ends a
\* turn; with a credential missing no delivery is attempted, and with both set
\* every call of push makes exactly one attempt, failed or not.
C15_PushNeverFails ==
  /\ \A t \in Turns : error[t] # "RequestException"
  /\ deliveries = (IF pushover_token /\ pushover_user THEN notifyCalls ELSE 0)
  /\ deliveryErrors <= deliveries

\* C15: the delivery of one tool round failed and the generation went on to a
\* second tool round, whose delivery was made.
C15_Witness ==
  \E t \in Turns :
    /\ pc[t] = "generate"
    /\ notifyCalls = 2
    /\ deliveries = 2
    /\ deliveryErrors = 1

\* C16: with the evaluator configured, whatever its call comes to other than
\* a complete verdict is an acceptance: unparseable text gives the text cut to
\* 400 characters as feedback, a missing field gets its default, an error
\* gives its string as feedback; and a regeneration only follows an explicit
\* rejection.
C16_EvaluatorFailureAccepts ==
  \A t \in Turns :
    /\ pc[t] \in {"decide", "returned"} /\ evalResponse[t] # NoResponse
       => LET r == evalResponse[t]
              e == evaluation[t] IN
          /\ e.kind = "dict"
          /\ r.http # "ok" => e.is_acceptable /\ e.feedback = ErrorString(r)
          /\ r.http = "ok" /\ r.form = "not_json"
             => e.is_acceptable /\ e.feedback = strip_truncate(r.raw)
          /\ r.http = "ok" /\ r.form \in {"scalar", "key_list"} => e.is_acceptable
          /\ r.http = "ok" /\ r.form = "object"
             => /\ e.is_acceptable = (IF r.obj.has_acc THEN r.obj.acc ELSE TRUE)
                /\ e.feedback = (IF r.obj.has_fb THEN r.obj.fb ELSE "")
    /\ pc[t] = "generate" /\ attempts[t] > 0
       => LET r == evalResponse[t] IN
          r.http = "ok" /\ r.form = "object" /\ r.obj.has_acc /\ ~r.obj.acc
    /\ error[t] # "AttributeError: get"

\* C17: the steps of a turn are strictly ordered: the evaluator is invoked
\* only on the final text of the current generation and with every tool call
\* of that generation dispatched; a regeneration starts only from an
\* evaluation of the previous reply that has returned; and every tool call of
\* a tool round is dispatched before the next call of the primary model.
C17_StrictOrder ==
  /\ [](\A t \in Turns :
          /\ pc[t] \in {"generate", "evaluate", "decide", "returned"}
             => dispatched[t] = toolCalls[t]
          /\ evalCalls[t] <= Len(evalLog[t])
          /\ Len(evalLog[t]) <= Len(genLog[t])
          /\ pc[t] = "generate" => Len(evalLog[t]) = Len(genLog[t])
          /\ pc[t] = "evaluate" => Len(genLog[t]) = Len(evalLog[t]) + 1)
  /\ [][\A t \in Turns :
          /\ evalLog'[t] # evalLog[t] \/ evalCalls'[t] # evalCalls[t]
             => /\ pc[t] = "evaluate"
                /\ reply[t] = Last(genLog[t])
                /\ dispatched[t] = toolCalls[t]
          /\ attempts'[t] # attempts[t]
             => /\ pc[t] = "decide"
                /\ Len(evalLog[t]) = Len(genLog[t])
                /\ evaluation[t] = Last(evalLog[t])
          /\ genLog'[t] # genLog[t] => pc[t] = "generate" /\ pc'[t] = "evaluate"]_vars

\* C17: a regenerated reply is about to be evaluated, after a tool round of
\* two calls, both dispatched.
C17_Witness ==
  \E t \in Turns :
    /\ pc[t] = "evaluate"
    /\ attempts[t] = 1
    /\ toolCalls[t] = 2
    /\ dispatched[t] = 2

\* The tool-call messages that a generation has put into its messages.
ToolRounds(msgs) == Cardinality({i \in 1..Len(msgs) : msgs[i].kind = "object"})

\* C19: a generation ends exactly when the primary model answers with final
\* text: a response with tool calls leaves the turn in the same generation, a
\* turn past its generation has one final text per generation, and after any
\* number of tool rounds the model may ask for another one (the code puts no
\* cap on them), so a turn whose model never gives final text never returns.
C19_GenerationEndsAtFinalText ==
  /\ [](\A t \in Turns :
          /\ pc[t] = "generate" /\ toolCalls[t] < MaxToolCalls
             => ENABLED ModelRequestsTools(t)
          /\ pc[t] \in {"evaluate", "decide", "returned"}
             => Len(genLog[t]) = attempts[t] + 1 /\ reply[t] = Last(genLog[t])
          /\ pc[t] = "generate" => Len(genLog[t]) = attempts[t])
  /\ [][\A t \in Turns :
          /\ toolCalls'[t] > toolCalls[t]
             => pc'[t] = "generate" /\ genLog'[t] = genLog[t] /\ reply'[t] = reply[t]
          /\ pc[t] = "generate" /\ pc'[t] = "evaluate"
             => Len(genLog'[t]) = Len(genLog[t]) + 1 /\ messages'[t] = messages[t]]_vars

\* C19: a generation is in its second tool round and has produced no final
\* text yet.
C19_Witness ==
  \E t \in Turns :
    /\ pc[t] = "generate"
    /\ ToolRounds(messages[t]) = 2
    /\ genLog[t] = <<>>

\* C20: a turn that has returned made as many evaluations as generations,
\* between 1 and 3, the last evaluation being the one of the returned reply
\* whatever its verdict; and at no time is a generation left unevaluated
\* when the next one starts.
C20_EvaluationsEqualGenerations ==
  \A t \in Turns :
    /\ Len(genLog[t]) \in {Len(evalLog[t]), Len(evalLog[t]) + 1}
    /\ pc[t] = "returned"
       => /\ Len(evalLog[t]) = Len(genLog[t])
          /\ Len(genLog[t]) \in 1..(MaxRetries + 1)
          /\ returned[t] = Last(genLog[t])
          /\ evaluation[t] = Last(evalLog[t])
          /\ evalCalls[t] = (IF api_key THEN Len(genLog[t]) ELSE 0)

\* C20: the turn returned its third reply, whose evaluation was a rejection.
C20_Witness ==
  \E t \in Turns :
    /\ pc[t] = "returned"
    /\ Len(genLog[t]) = 3
    /\ Len(evalLog[t]) = 3
    /\ Rejects(evalLog[t][3])

\* What belongs to turn t alone: the arguments and the local variables of
\* its call of chat, and how the call ended.
TurnView(t) ==
  <<pc[t], message[t], history[t], base_system[t], messages[t], reply[t], evaluation[t],
    eval_history[t], attempts[t], error[t], returned[t], genLog[t], evalLog[t]>>

\* The index of the generation a turn returns, given the evaluations it got:
\* the first one accepted, or the last one allowed.
RECURSIVE FirstAccepted(_, _)
FirstAccepted(evals, k) ==
  IF k > Len(evals) THEN Len(evals)
  ELSE IF evals[k].is_acceptable \/ k = MaxRetries + 1 THEN k
  ELSE FirstAccepted(evals, k + 1)

\* The system message a turn works with: base_system, or after a rejection
\* base_system with the block of that rejection.
SystemOf(t) ==
  IF attempts[t] = 0 THEN base_system[t]
  ELSE improved_system(base_system[t], genLog[t][attempts[t]], evalLog[t][attempts[t]])

\* C18: two turns running side by side on one instance do not interfere: a
\* step of one turn changes nothing that belongs to the other, the persona is
\* never written, and each turn is what it is alone: its messages begin with
\* its own system message, its own history and its own user message, and what
\* it returns is fixed by the replies and evaluations it got itself.
C18_TurnsDoNotInterfere ==
  /\ [](\A t \in Turns :
          /\ pc[t] \in {"generate", "evaluate", "decide", "returned"}
             => /\ base_system[t] = system_prompt(me)
                /\ SubSeq(messages[t], 1, Len(history[t]) + 2)
                     = build_messages(SystemOf(t), history[t], message[t])
          /\ pc[t] = "returned"
             => /\ Len(genLog[t]) = FirstAccepted(evalLog[t], 1)
                /\ returned[t] = genLog[t][FirstAccepted(evalLog[t], 1)])
  /\ [][/\ me' = me
        /\ \A t \in Turns :
             TurnView(t)' # TurnView(t)
             => \A u \in Turns \ {t} : TurnView(u)' = TurnView(u)]_vars

\* C18: the two turns are under way at once and end differently: the first
\* returned its first reply while the second, after a rejection, is in its
\* regeneration with a reply of its own.
C18_Witness ==
  /\ pc["t1"] = "returned"
  /\ attempts["t1"] = 0
  /\ pc["t2"] = "decide"
  /\ attempts["t2"] = 1
  /\ reply["t2"] # returned["t1"]
  /\ Len(messages["t2"]) = Len(messages["t1"]) + 2

\* The places of messages that hold what a tool round appended: the
\* tool-call messages and the tool messages.
ToolRoundPlaces(msgs) ==
  {i \in 1..Len(msgs) : msgs[i].kind = "object" \/ msgs[i].role = "tool"}

\* C21: chat never changes the history its caller passed: at every point of
\* a turn, whatever its tool rounds and regenerations and whether it returns
\* or raises, the caller's list holds the elements it held at the call, in
\* their order; what the tool rounds append lies in the turn's own messages,
\* behind the user message: per round the tool-call message and one tool
\* message for each of its calls.
C21_HistoryUnchanged ==
  \A t \in Turns :
    /\ history[t] = history_before[t]
    /\ ToolRoundPlaces(history[t]) = {}
    /\ pc[t] # "idle"
       => /\ SubSeq(messages[t], 2, Len(history_before[t]) + 1) = history_before[t]
          /\ \A i \in ToolRoundPlaces(messages[t]) : i > Len(history_before[t]) + 2
          /\ Len(messages[t]) = Len(history_before[t]) + 2 + Cardinality(ToolRoundPlaces(messages[t]))
          /\ Cardinality(ToolRoundPlaces(messages[t])) = toolCalls[t] + ToolRounds(messages[t])

\* C21: a turn on a history of two messages was rejected once, made two tool
\* rounds in its regeneration and then failed.
C21_Witness ==
  \E t \in Turns :
    /\ pc[t] = "raised"
    /\ error[t] = "TypeError: not subscriptable"
    /\ attempts[t] = 1
    /\ ToolRounds(messages[t]) = 2
    /\ Len(history_before[t]) = 2

====
